---- MODULE Spec2Model ----
(***************************************************************************)
(* Model of script.py: the run orchestrator (the __main__ block) and the   *)
(* most-read extractor scrape_most_read_article, together with the         *)
(* collaborators they drive: the file system, the web site, the wall clock *)
(* and the daily event monitor (daily_event_monitor.DailyEventMonitor).    *)
(*                                                                         *)
(* A run is one execution of the script.  Runs 1..NumRuns are executed one *)
(* after the other under Spec, and may overlap under SpecOverlap.          *)
(* Text that the code trims is a sequence of one-character strings; dates, *)
(* URLs and log messages are strings.                                      *)
(***************************************************************************)
EXTENDS Integers, Sequences, FiniteSets, TLC

VARIABLES
    pc,            \* pc[r]: the statement run r executes next
    exit_code,     \* exit_code[r]: the process exit status, NoExit while running
    dem,           \* dem[r]: the in-memory mapping of the run's DailyEventMonitor
    data_point,    \* data_point[r]: the module-level variable of line 99/102
    soup,          \* soup[r]: the parsed homepage (local of the extractor)
    article_soup,  \* article_soup[r]: the parsed article page (local of the extractor)
    calls,         \* calls[r]: the calls run r has made on its collaborators, in order
    log,           \* log[r]: the loguru records run r has emitted, in order
    file,          \* the backing file data/daily_pennsylvanian_headlines.json
    data_dir,      \* whether the directory data/ exists
    today,         \* the wall clock's calendar day (day of January 2024)
    file_start,    \* file_start[r]: the backing file when run r started
    file_end,      \* file_end[r]: the backing file when run r's process ended
    saves,         \* the runs whose save has written the file, in order
    loaded_at      \* loaded_at[r]: Len(saves) when run r loaded the file

vars == << pc, exit_code, dem, data_point, soup, article_soup, calls, log,
           file, data_dir, today, file_start, file_end, saves, loaded_at >>

----------------------------------------------------------------------------
(* Bounds *)

NumRuns == 2
MaxDay == 2
MaxLen == 2

Runs == 1..NumRuns
Chars == {" ", "A"}
Whitespace == {" "}

----------------------------------------------------------------------------
(* Python values *)

None == << "None" >>
EmptyStr == << >>
NoAttr == "<absent>"
NoExit == -1

\* Variant of Truthy: `if data_point is not None:`.
TruthyNotNone(x) == x # None

\* Python truthiness of a str-or-None value: `if data_point:` (line 105).
Truthy(x) == x # None /\ x # EmptyStr

\* Truthiness of an attribute value: `first_article.get("href")` (line 48).
TruthyAttr(a) == a # NoAttr /\ a # ""

RECURSIVE lstrip(_)
lstrip(s) == IF s # << >> /\ Head(s) \in Whitespace THEN lstrip(Tail(s)) ELSE s

RECURSIVE rstrip(_)
rstrip(s) == IF s # << >> /\ s[Len(s)] \in Whitespace
                THEN rstrip(SubSeq(s, 1, Len(s) - 1)) ELSE s

\* Variant of strip: only the leading whitespace is removed.
strip_left_only(s) == lstrip(s)

\* str.strip() of line 71.
strip(s) == rstrip(lstrip(s))

Texts == UNION { [1..n -> Chars] : n \in 0..MaxLen }

----------------------------------------------------------------------------
(* The web site *)

homepage_url == "https://www.thedp.com"

Hrefs == { NoAttr, "", "/article/most-read" }

NoElement == [present |-> FALSE, href |-> NoAttr]

\* What soup.find("span", id="mostRead") and the nested find of the first
\* link can return for a fetched homepage.
HomePages ==
    { [mostRead |-> FALSE, first_article |-> NoElement] } \cup
    { [mostRead |-> TRUE, first_article |-> NoElement] } \cup
    { [mostRead |-> TRUE, first_article |-> [present |-> TRUE, href |-> h]] : h \in Hrefs }

\* What article_soup.find("h1") can return: no element, or one with a text.
ArticlePages ==
    { [h1 |-> FALSE, text |-> EmptyStr] } \cup { [h1 |-> TRUE, text |-> t] : t \in Texts }

NoPage == [mostRead |-> FALSE, first_article |-> NoElement]
NoArticle == [h1 |-> FALSE, text |-> EmptyStr]

\* Outcomes of requests.get + raise_for_status: a response, a RequestException
\* raised by get (transport) or by raise_for_status (non-2xx), or some other
\* exception.
Outcomes == { "ok", "ConnectionError", "HTTPError", "Exception" }

IsRequestException(o) == o \in { "ConnectionError", "HTTPError" }

article_url(page) == homepage_url \o page.first_article.href

----------------------------------------------------------------------------
(* The daily event monitor and its backing file *)

AbsentFile == [state |-> "absent", data |-> << >>]
MalformedFile == [state |-> "malformed", data |-> << >>]
UndecodableFile == [state |-> "undecodable", data |-> << >>]
DirectoryAtPath == [state |-> "directory", data |-> << >>]
ValidFile(d) == [state |-> "valid", data |-> d]

\* The date key: the ISO-8601 form of the local calendar day.
DateStr(n) == "2024-01-" \o (IF n < 10 THEN "0" ELSE "") \o ToString(n)

Keys(d) == { d[i][1] : i \in 1..Len(d) }

HasEntry(d, k, v) == \E i \in 1..Len(d) : d[i] = << k, v >>

CountKey(d, k) == Cardinality({ i \in 1..Len(d) : d[i][1] = k })

\* Assignment to a key of an ordered mapping: overwrite in place, or append.
Put(d, k, v) ==
    IF k \in Keys(d)
      THEN [i \in 1..Len(d) |-> IF d[i][1] = k THEN << k, v >> ELSE d[i]]
      ELSE Append(d, << k, v >>)

\* DailyEventMonitor(path): the mapping of a present, well-formed file, else empty.
load(f) == IF f.state = "valid" THEN f.data ELSE << >>

\* add_today(headline): a no-op for the empty string, else today's entry is set.
add_today(d, headline, day) ==
    IF headline = EmptyStr THEN d ELSE Put(d, DateStr(day), headline)

\* save(): the whole mapping replaces the file's content.
save(d) == ValidFile(d)

----------------------------------------------------------------------------
(* Records of what a run did *)

Call(fn, arg) == [fn |-> fn, arg |-> arg]

\* A call of add_today, with the date key the clock gave it.
CallAdd(headline, day) == [fn |-> "add_today", arg |-> headline, on |-> DateStr(day)]

Rec(level, msg) == << level, msg >>

Fns(r) == { calls[r][i].fn : i \in 1..Len(calls[r]) }

Gets(r) == SelectSeq(calls[r], LAMBDA c : c.fn = "requests.get")

Logged(r, level, msg) == \E i \in 1..Len(log[r]) : log[r][i] = Rec(level, msg)

LoggedLevel(r, level) == \E i \in 1..Len(log[r]) : log[r][i][1] = level

Ended(r) == pc[r] \in { "done", "exited", "crashed" }

----------------------------------------------------------------------------
(* Initial states *)

\* A date key written by a run of the previous year.
PastDate == "2023-12-31"

\* The file before the first run: absent, text that does not parse, bytes
\* that are no text, a directory at the file's path, an empty record, a
\* record with an earlier observation for the first day, or a record of two
\* observations that are not in chronological order.
InitFiles == { AbsentFile, MalformedFile, UndecodableFile, DirectoryAtPath,
               ValidFile(<< >>),
               ValidFile(<< << DateStr(1), << "A" >> >> >>),
               ValidFile(<< << DateStr(1), << "A" >> >>,
                            << PastDate, << "A", "A" >> >> >>) }

Init ==
    /\ pc = [r \in Runs |-> "idle"]
    /\ exit_code = [r \in Runs |-> NoExit]
    /\ dem = [r \in Runs |-> << >>]
    /\ data_point = [r \in Runs |-> None]
    /\ soup = [r \in Runs |-> NoPage]
    /\ article_soup = [r \in Runs |-> NoArticle]
    /\ calls = [r \in Runs |-> << >>]
    /\ log = [r \in Runs |-> << >>]
    /\ data_dir \in BOOLEAN
    /\ file \in (IF data_dir THEN InitFiles ELSE { AbsentFile })
    /\ today = 1
    /\ file_start = [r \in Runs |-> AbsentFile]
    /\ file_end = [r \in Runs |-> AbsentFile]
    /\ saves = << >>
    /\ loaded_at = [r \in Runs |-> 0]

----------------------------------------------------------------------------
(* The orchestrator: the __main__ block *)

\* Runs are discrete, non-overlapping executions: a run starts when every
\* earlier run has ended.
StartsAlone(r) == \A q \in Runs : IF q < r THEN Ended(q) ELSE pc[q] = "idle"

\* Two overlapping executions: the second starts once the first has started.
OverlappingRuns == { 1, 2 }

StartsAfter(r) == \A q \in OverlappingRuns : q < r => pc[q] # "idle"

\* Lines 77-83: the process starts.
Begin(r) ==
    /\ pc[r] = "idle"
    /\ pc' = [pc EXCEPT ![r] = "makedirs"]
    /\ log' = [log EXCEPT ![r] = << Rec("INFO", "Creating data directory if it does not exist") >>]
    /\ file_start' = [file_start EXCEPT ![r] = file]
    /\ UNCHANGED << exit_code, dem, data_point, soup, article_soup, calls, file,
                    data_dir, today, file_end, saves, loaded_at >>

\* Lines 84-85, 91: os.makedirs("data", exist_ok=True) returns.
MakeDirsOk(r) ==
    /\ pc[r] = "makedirs"
    /\ calls' = [calls EXCEPT ![r] = Append(@, Call("os.makedirs", "data"))]
    /\ data_dir' = TRUE
    /\ log' = [log EXCEPT ![r] = Append(@, Rec("INFO", "Loading daily event monitor"))]
    /\ pc' = [pc EXCEPT ![r] = "load"]
    /\ UNCHANGED << exit_code, dem, data_point, soup, article_soup, file, today,
                    file_start, file_end, saves, loaded_at >>

\* Variant of MakeDirsFail: the error is logged and the script goes on.
MakeDirsFailContinue(r) ==
    /\ pc[r] = "makedirs"
    /\ ~data_dir
    /\ calls' = [calls EXCEPT ![r] = Append(@, Call("os.makedirs", "data"))]
    /\ log' = [log EXCEPT ![r] = @ \o << Rec("ERROR", "Failed to create data directory"),
                                         Rec("INFO", "Loading daily event monitor") >>]
    /\ pc' = [pc EXCEPT ![r] = "load"]
    /\ UNCHANGED << exit_code, dem, data_point, soup, article_soup, file, data_dir,
                    today, file_start, file_end, saves, loaded_at >>

\* Lines 84-88: os.makedirs raises (possible only when data/ is not there yet).
MakeDirsFail(r) ==
    /\ pc[r] = "makedirs"
    /\ ~data_dir
    /\ calls' = [calls EXCEPT ![r] = Append(@, Call("os.makedirs", "data"))]
    /\ log' = [log EXCEPT ![r] = Append(@, Rec("ERROR", "Failed to create data directory"))]
    /\ exit_code' = [exit_code EXCEPT ![r] = 1]
    /\ pc' = [pc EXCEPT ![r] = "exited"]
    /\ file_end' = [file_end EXCEPT ![r] = file]
    /\ UNCHANGED << dem, data_point, soup, article_soup, file, data_dir, today,
                    file_start, saves, loaded_at >>

\* Variant of Load: the monitor is constructed without reading the file.
LoadFresh(r) ==
    /\ pc[r] = "load"
    /\ calls' = [calls EXCEPT ![r] = Append(@, Call("DailyEventMonitor", "data/daily_pennsylvanian_headlines.json"))]
    /\ dem' = [dem EXCEPT ![r] = << >>]
    /\ loaded_at' = [loaded_at EXCEPT ![r] = Len(saves)]
    /\ log' = [log EXCEPT ![r] = @ \o << Rec("INFO", "Starting scrape"),
                                         Rec("INFO", "Requesting homepage") >>]
    /\ pc' = [pc EXCEPT ![r] = "homepage"]
    /\ UNCHANGED << exit_code, data_point, soup, article_soup, file, data_dir, today,
                    file_start, file_end, saves >>

\* Lines 92-97 and 29: the monitor is constructed from the backing file, and
\* the extractor is entered.
Load(r) ==
    /\ pc[r] = "load"
    /\ calls' = [calls EXCEPT ![r] = Append(@, Call("DailyEventMonitor", "data/daily_pennsylvanian_headlines.json"))]
    /\ dem' = [dem EXCEPT ![r] = load(file)]
    /\ loaded_at' = [loaded_at EXCEPT ![r] = Len(saves)]
    /\ log' = [log EXCEPT ![r] = @ \o << Rec("INFO", "Starting scrape"),
                                         Rec("INFO", "Requesting homepage") >>]
    /\ pc' = [pc EXCEPT ![r] = "homepage"]
    /\ UNCHANGED << exit_code, data_point, soup, article_soup, file, data_dir, today,
                    file_start, file_end, saves >>

----------------------------------------------------------------------------
(* The extractor: scrape_most_read_article, called at line 99 *)

\* `return v` of the extractor, assigned to data_point at line 99.
Return(r, v, rec) ==
    /\ data_point' = [data_point EXCEPT ![r] = v]
    /\ log' = [log EXCEPT ![r] = Append(@, rec)]
    /\ soup' = [soup EXCEPT ![r] = NoPage]
    /\ article_soup' = [article_soup EXCEPT ![r] = NoArticle]
    /\ pc' = [pc EXCEPT ![r] = "save_data"]

\* Lines 100-102: an exception other than RequestException leaves the
\* extractor and is caught by the orchestrator.
Raise(r) ==
    Return(r, None, Rec("ERROR", "Failed to scrape data point"))

\* Variant of FetchHomepage: a failed request is tried again.
FetchHomepageRetry(r) ==
    /\ pc[r] = "homepage"
    /\ calls' = [calls EXCEPT ![r] = Append(@, Call("requests.get", homepage_url))]
    /\ \E o \in Outcomes :
         \/ /\ o = "ok"
            /\ \E page \in HomePages : soup' = [soup EXCEPT ![r] = page]
            /\ pc' = [pc EXCEPT ![r] = "most_read"]
            /\ UNCHANGED << data_point, article_soup, log >>
         \/ /\ IsRequestException(o)
            /\ log' = [log EXCEPT ![r] = Append(@, Rec("ERROR", "Error fetching homepage"))]
            /\ UNCHANGED << pc, data_point, soup, article_soup >>
         \/ /\ o = "Exception"
            /\ Raise(r)
    /\ UNCHANGED << exit_code, dem, file, data_dir, today, file_start, file_end,
                    saves, loaded_at >>

\* Lines 31-38: the homepage is requested and parsed.
FetchHomepage(r) ==
    /\ pc[r] = "homepage"
    /\ calls' = [calls EXCEPT ![r] = Append(@, Call("requests.get", homepage_url))]
    /\ \E o \in Outcomes :
         \/ /\ o = "ok"
            /\ \E page \in HomePages : soup' = [soup EXCEPT ![r] = page]
            /\ pc' = [pc EXCEPT ![r] = "most_read"]
            /\ UNCHANGED << data_point, article_soup, log >>
         \/ /\ IsRequestException(o)
            /\ Return(r, EmptyStr, Rec("ERROR", "Error fetching homepage"))
         \/ /\ o = "Exception"
            /\ Raise(r)
    /\ UNCHANGED << exit_code, dem, file, data_dir, today, file_start, file_end,
                    saves, loaded_at >>

\* Lines 41-44: the most-read section is looked up.
FindMostRead(r) ==
    /\ pc[r] = "most_read"
    /\ IF ~soup[r].mostRead
         THEN Return(r, EmptyStr, Rec("WARNING", "Could not find 'Most Read' section."))
         ELSE /\ pc' = [pc EXCEPT ![r] = "first_article"]
              /\ UNCHANGED << data_point, soup, article_soup, log >>
    /\ UNCHANGED << exit_code, dem, calls, file, data_dir, today, file_start,
                    file_end, saves, loaded_at >>

\* Lines 47-53: the first link of the section is looked up.
FindFirstArticle(r) ==
    /\ pc[r] = "first_article"
    /\ IF ~soup[r].first_article.present \/ ~TruthyAttr(soup[r].first_article.href)
         THEN Return(r, EmptyStr, Rec("WARNING", "Could not find 'Most Read' article link."))
         ELSE /\ pc' = [pc EXCEPT ![r] = "article"]
              /\ log' = [log EXCEPT ![r] = Append(@, Rec("INFO", "Most Read Article URL"))]
              /\ UNCHANGED << data_point, soup, article_soup >>
    /\ UNCHANGED << exit_code, dem, calls, file, data_dir, today, file_start,
                    file_end, saves, loaded_at >>

\* Lines 56-63: the article page is requested and parsed.
FetchArticle(r) ==
    /\ pc[r] = "article"
    /\ calls' = [calls EXCEPT ![r] = Append(@, Call("requests.get", article_url(soup[r])))]
    /\ \E o \in Outcomes :
         \/ /\ o = "ok"
            /\ \E page \in ArticlePages : article_soup' = [article_soup EXCEPT ![r] = page]
            /\ pc' = [pc EXCEPT ![r] = "headline"]
            /\ UNCHANGED << data_point, soup, log >>
         \/ /\ IsRequestException(o)
            /\ Return(r, EmptyStr, Rec("ERROR", "Error fetching article page"))
         \/ /\ o = "Exception"
            /\ Raise(r)
    /\ UNCHANGED << exit_code, dem, file, data_dir, today, file_start, file_end,
                    saves, loaded_at >>

\* Lines 66-74: the primary heading is looked up and its text trimmed.
ExtractHeadline(r) ==
    /\ pc[r] = "headline"
    /\ IF ~article_soup[r].h1
         THEN Return(r, EmptyStr, Rec("WARNING", "Could not find article headline."))
         ELSE Return(r, strip(article_soup[r].text), Rec("INFO", "Extracted Headline"))
    /\ UNCHANGED << exit_code, dem, calls, file, data_dir, today, file_start,
                    file_end, saves, loaded_at >>

----------------------------------------------------------------------------
(* The orchestrator, after the extractor has returned *)

\* Variant of SaveDataSkip: save is called outside the `if`.
SaveDataSkipButSave(r) ==
    /\ pc[r] = "save_data"
    /\ ~Truthy(data_point[r])
    /\ file' = save(dem[r])
    /\ saves' = Append(saves, r)
    /\ calls' = [calls EXCEPT ![r] = Append(@, Call("save", ""))]
    /\ pc' = [pc EXCEPT ![r] = "print_tree"]
    /\ UNCHANGED << exit_code, dem, data_point, soup, article_soup, log, data_dir,
                    today, file_start, file_end, loaded_at >>

\* Line 105, condition false: nothing is recorded.
SaveDataSkip(r) ==
    /\ pc[r] = "save_data"
    /\ ~Truthy(data_point[r])
    /\ pc' = [pc EXCEPT ![r] = "print_tree"]
    /\ UNCHANGED << exit_code, dem, data_point, soup, article_soup, calls, log, file,
                    data_dir, today, file_start, file_end, saves, loaded_at >>

\* open(path, "w") succeeds on a regular or missing file, not on a directory.
Writable(f) == f.state # "directory"

\* Variant of SaveDataOk: save is called before add_today.
SaveDataOkSaveFirst(r) ==
    /\ pc[r] = "save_data"
    /\ Truthy(data_point[r])
    /\ Writable(file)
    /\ file' = save(dem[r])
    /\ dem' = [dem EXCEPT ![r] = add_today(@, data_point[r], today)]
    /\ saves' = Append(saves, r)
    /\ calls' = [calls EXCEPT ![r] = @ \o << Call("save", ""),
                                             CallAdd(data_point[r], today) >>]
    /\ log' = [log EXCEPT ![r] = Append(@, Rec("INFO", "Saved daily event monitor"))]
    /\ pc' = [pc EXCEPT ![r] = "print_tree"]
    /\ UNCHANGED << exit_code, data_point, soup, article_soup, data_dir, today,
                    file_start, file_end, loaded_at >>

\* Variant of SaveDataOk: the file is read again right before add_today.
SaveDataOkReload(r) ==
    /\ pc[r] = "save_data"
    /\ Truthy(data_point[r])
    /\ Writable(file)
    /\ dem' = [dem EXCEPT ![r] = add_today(load(file), data_point[r], today)]
    /\ file' = save(dem'[r])
    /\ saves' = Append(saves, r)
    /\ calls' = [calls EXCEPT ![r] = @ \o << CallAdd(data_point[r], today),
                                             Call("save", "") >>]
    /\ log' = [log EXCEPT ![r] = Append(@, Rec("INFO", "Saved daily event monitor"))]
    /\ pc' = [pc EXCEPT ![r] = "print_tree"]
    /\ UNCHANGED << exit_code, data_point, soup, article_soup, data_dir, today,
                    file_start, file_end, loaded_at >>

\* Lines 105-108: add_today, then save, which writes the file.
SaveDataOk(r) ==
    /\ pc[r] = "save_data"
    /\ Truthy(data_point[r])
    /\ Writable(file)
    /\ dem' = [dem EXCEPT ![r] = add_today(@, data_point[r], today)]
    /\ file' = save(dem'[r])
    /\ saves' = Append(saves, r)
    /\ calls' = [calls EXCEPT ![r] = @ \o << CallAdd(data_point[r], today),
                                             Call("save", "") >>]
    /\ log' = [log EXCEPT ![r] = Append(@, Rec("INFO", "Saved daily event monitor"))]
    /\ pc' = [pc EXCEPT ![r] = "print_tree"]
    /\ UNCHANGED << exit_code, data_point, soup, article_soup, data_dir, today,
                    file_start, file_end, loaded_at >>

\* Lines 105-107: add_today, then save raises; nothing in the orchestrator
\* catches it, so the interpreter ends the process with status 1.
SaveDataFail(r) ==
    /\ pc[r] = "save_data"
    /\ Truthy(data_point[r])
    /\ dem' = [dem EXCEPT ![r] = add_today(@, data_point[r], today)]
    /\ calls' = [calls EXCEPT ![r] = @ \o << CallAdd(data_point[r], today),
                                             Call("save", "") >>]
    /\ exit_code' = [exit_code EXCEPT ![r] = 1]
    /\ pc' = [pc EXCEPT ![r] = "crashed"]
    /\ file_end' = [file_end EXCEPT ![r] = file]
    /\ UNCHANGED << data_point, soup, article_soup, log, file, data_dir, today,
                    file_start, saves, loaded_at >>

\* Lines 112-119: one record per directory and per file that os.walk finds,
\* a directory's files before its subdirectories: the working directory,
\* scrape.log (created at line 80), data/, and what is at the file's path.
TreeRecords(dir, f) ==
    << Rec("INFO", "+--<cwd>/"), Rec("INFO", "    +--scrape.log") >>
    \o (IF dir THEN << Rec("INFO", "    +--data/") >> ELSE << >>)
    \o (CASE f.state = "absent" -> << >>
          [] f.state = "directory" ->
               << Rec("INFO", "        +--daily_pennsylvanian_headlines.json/") >>
          [] OTHER ->
               << Rec("INFO", "        +--daily_pennsylvanian_headlines.json") >>)

\* open(path, "r") and f.read() succeed on a file that holds text.
Readable(f) == f.state \in { "malformed", "valid" }

\* Lines 110-123: the working tree is listed.
PrintTree(r) ==
    /\ pc[r] = "print_tree"
    /\ calls' = [calls EXCEPT ![r] = Append(@, Call("print_tree", "."))]
    /\ log' = [log EXCEPT ![r] = @ \o << Rec("INFO", "Printing tree of files/dirs") >>
                                      \o TreeRecords(data_dir, file)
                                      \o << Rec("INFO", "Printing contents of data file") >>]
    /\ pc' = [pc EXCEPT ![r] = "dump"]
    /\ UNCHANGED << exit_code, dem, data_point, soup, article_soup, file, data_dir,
                    today, file_start, file_end, saves, loaded_at >>

\* Lines 124-129: the backing file is opened, logged, and the script ends.
DumpOk(r) ==
    /\ pc[r] = "dump"
    /\ Readable(file)
    /\ calls' = [calls EXCEPT ![r] = Append(@, Call("open", "data/daily_pennsylvanian_headlines.json"))]
    /\ log' = [log EXCEPT ![r] = @ \o << Rec("INFO", "<file contents>"),
                                         Rec("INFO", "Scrape complete"),
                                         Rec("INFO", "Exiting") >>]
    /\ exit_code' = [exit_code EXCEPT ![r] = 0]
    /\ pc' = [pc EXCEPT ![r] = "done"]
    /\ file_end' = [file_end EXCEPT ![r] = file]
    /\ UNCHANGED << dem, data_point, soup, article_soup, file, data_dir, today,
                    file_start, saves, loaded_at >>

\* Lines 124-125: open raises for an absent file (FileNotFoundError) or a
\* directory (IsADirectoryError), f.read() for bytes that are no text
\* (UnicodeDecodeError); nothing catches it, so the interpreter ends the
\* process with status 1.
DumpFail(r) ==
    /\ pc[r] = "dump"
    /\ ~Readable(file)
    /\ calls' = [calls EXCEPT ![r] = Append(@, Call("open", "data/daily_pennsylvanian_headlines.json"))]
    /\ exit_code' = [exit_code EXCEPT ![r] = 1]
    /\ pc' = [pc EXCEPT ![r] = "crashed"]
    /\ file_end' = [file_end EXCEPT ![r] = file]
    /\ UNCHANGED << dem, data_point, soup, article_soup, log, file, data_dir, today,
                    file_start, saves, loaded_at >>

\* Midnight passes.
Tick ==
    /\ today < MaxDay
    /\ today' = today + 1
    /\ UNCHANGED << pc, exit_code, dem, data_point, soup, article_soup, calls, log,
                    file, data_dir, file_start, file_end, saves, loaded_at >>

Step(r) ==
    \/ MakeDirsOk(r)
    \/ MakeDirsFail(r)
    \/ Load(r)
    \/ FetchHomepage(r)
    \/ FindMostRead(r)
    \/ FindFirstArticle(r)
    \/ FetchArticle(r)
    \/ ExtractHeadline(r)
    \/ SaveDataSkip(r)
    \/ SaveDataOk(r)
    \/ SaveDataFail(r)
    \/ PrintTree(r)
    \/ DumpOk(r)
    \/ DumpFail(r)

Next ==
    \/ \E r \in Runs : (StartsAlone(r) /\ Begin(r)) \/ Step(r)
    \/ Tick

NextOverlap ==
    \/ \E r \in OverlappingRuns : (StartsAfter(r) /\ Begin(r)) \/ Step(r)
    \/ Tick

Spec == Init /\ [][Next]_vars

SpecOverlap == Init /\ [][NextOverlap]_vars

----------------------------------------------------------------------------
(* Vocabulary of the properties *)

\* The extractor has returned (or raised) and the run is past line 102.
PastExtractor(r) == pc[r] \in { "save_data", "print_tree", "dump", "done", "crashed" }
                    /\ "requests.get" \in Fns(r)

\* The extractor produced no headline: "" was returned or an exception caught.
NoHeadline(r) == PastExtractor(r) /\ data_point[r] \in { None, EmptyStr }

\* Line 108 was reached: save returned.
Saved(r) == Logged(r, "INFO", "Saved daily event monitor")

\* save was called and raised.
SaveFailed(r) == "save" \in Fns(r) /\ \A i \in 1..Len(saves) : saves[i] # r

\* os.makedirs raised.
MakeDirsFailed(r) == Logged(r, "ERROR", "Failed to create data directory")

\* The date key under which the run's add_today recorded.
DateOf(r) == (CHOOSE c \in { calls[r][i] : i \in 1..Len(calls[r]) } : c.fn = "add_today").on

\* The backing file as the run leaves it.
FileAfter(r) == IF Ended(r) THEN file_end[r] ELSE file

Without(d, k) == SelectSeq(d, LAMBDA e : e[1] # k)

LastLog(r) == log[r][Len(log[r])]

\* Position of a call in the script's fixed sequence of steps.
Rank(c) ==
    CASE c.fn = "os.makedirs" -> 1
      [] c.fn = "DailyEventMonitor" -> 2
      [] c.fn = "requests.get" /\ c.arg = homepage_url -> 3
      [] c.fn = "requests.get" /\ c.arg # homepage_url -> 4
      [] c.fn = "add_today" -> 5
      [] c.fn = "save" -> 6
      [] c.fn = "print_tree" -> 7
      [] c.fn = "open" -> 8

\* The steps that may directly precede a step.
Before(k) ==
    CASE k = 1 -> { }
      [] k = 2 -> { 1 }
      [] k = 3 -> { 2 }
      [] k = 4 -> { 3 }
      [] k = 5 -> { 4 }
      [] k = 6 -> { 5 }
      [] k = 7 -> { 3, 4, 6 }
      [] k = 8 -> { 7 }

\* t is s with its leading and trailing whitespace removed, and nothing else.
IsTrimOf(t, s) ==
    /\ t = << >> \/ (t[1] \notin Whitespace /\ t[Len(t)] \notin Whitespace)
    /\ \E i \in 0..Len(s) : \E j \in i..Len(s) :
         /\ t = SubSeq(s, i + 1, j)
         /\ \A k \in (1..i) \cup ((j + 1)..Len(s)) : s[k] \in Whitespace

----------------------------------------------------------------------------
(* C1 *)

\* C1: in every run whose extraction produced no headline (a failed request,
\* a missing element, or an exception caught at line 100), neither add_today
\* nor save is called, and the backing file the run leaves is the file it
\* found.
C1_NoHeadlineNoMutation ==
    \A r \in Runs :
        NoHeadline(r) =>
            /\ "add_today" \notin Fns(r)
            /\ "save" \notin Fns(r)
            /\ \A i \in 1..Len(saves) : saves[i] # r
            /\ FileAfter(r) = file_start[r]

\* A run over a non-empty record ended after an exception was caught, and
\* another ended after a missing heading.
C1_Witness ==
    \E r \in Runs : \E q \in Runs :
        /\ Ended(r) /\ NoHeadline(r) /\ data_point[r] = None
        /\ file_start[r].state = "valid" /\ Len(file_start[r].data) > 0
        /\ Ended(q) /\ NoHeadline(q)
        /\ Logged(q, "WARNING", "Could not find article headline.")

----------------------------------------------------------------------------
(* C2 *)

\* C2: every run whose os.makedirs succeeded ends normally with exit status
\* 0, whatever the backing file was at the start and whether or not a
\* headline was extracted; the dump of the backing file never fails the run.
C2_ExitZero ==
    \A r \in Runs :
        (Ended(r) /\ ~MakeDirsFailed(r)) => (pc[r] = "done" /\ exit_code[r] = 0)

----------------------------------------------------------------------------
(* C3 *)

\* C3: when os.makedirs fails the process exits with status 1 at once: the
\* only call made is os.makedirs (no load, no request, no add_today, no
\* save, no diagnostics), and the backing file is left as found.
C3_SetupFailureExits ==
    \A r \in Runs :
        MakeDirsFailed(r) =>
            /\ pc[r] = "exited"
            /\ exit_code[r] = 1
            /\ calls[r] = << Call("os.makedirs", "data") >>
            /\ dem[r] = << >>
            /\ LastLog(r) = Rec("ERROR", "Failed to create data directory")
            /\ file_end[r] = file_start[r]

\* A second run fails to create the directory after a first one did too.
C3_Witness ==
    \E r \in Runs : r > 1 /\ MakeDirsFailed(r) /\ pc[r] = "exited"

----------------------------------------------------------------------------
(* C4 *)

\* C4: when save fails, the failure leaves save and reaches the orchestrator,
\* the run does not log the store as saved, and the orchestrator emits a
\* record of level ERROR for it.
C4_SaveFailureLogged ==
    \A r \in Runs :
        SaveFailed(r) =>
            /\ ~Saved(r)
            /\ LoggedLevel(r, "ERROR")

----------------------------------------------------------------------------
(* C5 *)

\* C5: the calls of a run follow the fixed order makedirs, load, homepage
\* request, article request, add_today, save, print_tree, open, each at most
\* once and each directly after a step that may precede it; add_today gets
\* the extracted, non-empty headline; the file is dumped after save whenever
\* a headline was produced.
C5_StepOrder ==
    \A r \in Runs :
        /\ \A i \in 1..Len(calls[r]) : \A j \in 1..Len(calls[r]) :
               i < j => Rank(calls[r][i]) < Rank(calls[r][j])
        /\ \A i \in 1..Len(calls[r]) :
               IF i = 1 THEN Rank(calls[r][1]) = 1
                        ELSE Rank(calls[r][i - 1]) \in Before(Rank(calls[r][i]))
        /\ \A i \in 1..Len(calls[r]) :
               calls[r][i].fn = "add_today" =>
                   /\ calls[r][i].arg = data_point[r]
                   /\ calls[r][i].arg \notin { None, EmptyStr }
        /\ ("open" \in Fns(r) /\ data_point[r] \notin { None, EmptyStr }) => "save" \in Fns(r)
        /\ ("print_tree" \in Fns(r) /\ data_point[r] \notin { None, EmptyStr }) => "save" \in Fns(r)

\* A run made all eight calls.
C5_Witness ==
    \E r \in Runs : pc[r] = "done" /\ Len(calls[r]) = 8

----------------------------------------------------------------------------
(* C6 *)

\* C6: for two successive runs that record on the same date (each extracted
\* a non-empty headline and its save returned), the file the second run
\* leaves has exactly one entry for that date, its value is the second run's
\* headline, and it has as many entries as the file the first run left.
C6_SameDayOverwrite ==
    \A p \in Runs : \A q \in Runs :
        (/\ q = p + 1
         /\ Ended(p) /\ Ended(q)
         /\ Saved(p) /\ Saved(q)
         /\ DateOf(p) = DateOf(q))
        =>
            /\ file_end[q].state = "valid"
            /\ CountKey(file_end[q].data, DateOf(q)) = 1
            /\ HasEntry(file_end[q].data, DateOf(q), data_point[q])
            /\ Len(file_end[q].data) = Len(file_end[p].data)

\* Two successive runs recorded different headlines on the same date, beside
\* an older entry of another date.
C6_Witness ==
    \E p \in Runs : \E q \in Runs :
        /\ q = p + 1 /\ Ended(p) /\ Ended(q) /\ Saved(p) /\ Saved(q)
        /\ DateOf(p) = DateOf(q)
        /\ data_point[p] # data_point[q]
        /\ Len(file_end[q].data) > 1

----------------------------------------------------------------------------
(* C7 *)

\* C7: a run that records headline h on date d over a file with no entry for
\* d leaves a file holding every previous entry, value and relative order
\* unchanged, plus exactly one new entry, d -> h.
C7_NewDayFrame ==
    \A r \in Runs :
        (/\ Ended(r) /\ Saved(r)
         /\ DateOf(r) \notin Keys(load(file_start[r])))
        =>
            /\ file_end[r].state = "valid"
            /\ Without(file_end[r].data, DateOf(r)) = load(file_start[r])
            /\ CountKey(file_end[r].data, DateOf(r)) = 1
            /\ HasEntry(file_end[r].data, DateOf(r), data_point[r])
            /\ Len(file_end[r].data) = Len(load(file_start[r])) + 1

\* A run added a new date to a record that already held two entries of
\* other dates, with different values and not in chronological order.
C7_Witness ==
    \E r \in Runs :
        /\ Ended(r) /\ Saved(r)
        /\ DateOf(r) \notin Keys(load(file_start[r]))
        /\ Len(load(file_start[r])) >= 2
        /\ load(file_start[r])[1] # load(file_start[r])[2]
        /\ load(file_start[r])[2][1] = PastDate
        /\ SubSeq(file_end[r].data, 1, 2) = load(file_start[r])

----------------------------------------------------------------------------
(* C8 *)

C8_AtMostTwoGets ==
    \A r \in Runs :
        /\ Len(Gets(r)) <= 2
        /\ Len(Gets(r)) >= 1 => Gets(r)[1].arg = homepage_url
        /\ Len(Gets(r)) = 2 => Gets(r)[2].arg # Gets(r)[1].arg

C8_ArticleGetStep ==
    \A r \in Runs :
        (Len(Gets(r)') = 2 /\ Len(Gets(r)) # 2) =>
            /\ Len(Gets(r)) = 1
            /\ ~LoggedLevel(r, "ERROR")
            /\ ~LoggedLevel(r, "WARNING")
            /\ soup[r].mostRead
            /\ soup[r].first_article.present
            /\ soup[r].first_article.href \notin { NoAttr, "" }
            /\ Gets(r)'[2].arg = homepage_url \o soup[r].first_article.href

\* C8: a run issues at most two requests, the homepage first and then one
\* other URL, none twice; the second is issued only when the homepage request
\* succeeded and the most-read section and a first link with an href were
\* found, and goes to the homepage URL followed by that href.
C8_SingleAttempt == [](C8_AtMostTwoGets) /\ [][C8_ArticleGetStep]_vars

\* A run requested the article after the homepage, and the request failed.
C8_Witness ==
    \E r \in Runs :
        /\ Len(Gets(r)) = 2
        /\ Logged(r, "ERROR", "Error fetching article page")
        /\ Ended(r)

----------------------------------------------------------------------------
(* C9 *)

InExtractor(r) == pc[r] \in { "homepage", "most_read", "first_article", "article", "headline" }

\* An element the extractor looks up at its current statement is absent.
ElementAbsent(r) ==
    \/ pc[r] = "most_read" /\ ~soup[r].mostRead
    \/ pc[r] = "first_article" /\ ~soup[r].first_article.present
    \/ pc[r] = "first_article" /\ soup[r].first_article.href \in { NoAttr, "" }
    \/ pc[r] = "headline" /\ ~article_soup[r].h1

C9_ReturnStep ==
    \A r \in Runs :
        (InExtractor(r) /\ pc'[r] # pc[r]) =>
            \* an absent element: "" is returned
            /\ ElementAbsent(r) =>
                   (pc'[r] = "save_data" /\ data_point'[r] = EmptyStr)
            \* a failed request: "" is returned
            /\ (LastLog(r)' \in { Rec("ERROR", "Error fetching homepage"),
                                  Rec("ERROR", "Error fetching article page") }) =>
                   (pc'[r] = "save_data" /\ data_point'[r] = EmptyStr)
            \* only an exception that is none of these leaves the extractor
            /\ (pc'[r] = "save_data" /\ data_point'[r] = None) =>
                   (/\ pc[r] \in { "homepage", "article" }
                    /\ LastLog(r)' = Rec("ERROR", "Failed to scrape data point"))
            \* a non-empty string is returned only from the last statement,
            \* with both requests made and the heading found
            /\ (pc'[r] = "save_data" /\ data_point'[r] \notin { None, EmptyStr }) =>
                   (/\ pc[r] = "headline"
                    /\ article_soup[r].h1
                    /\ Len(Gets(r)) = 2
                    /\ ~LoggedLevel(r, "ERROR") /\ ~LoggedLevel(r, "WARNING"))
            \* what the last statement returns is the trimmed heading text
            /\ (pc[r] = "headline" /\ article_soup[r].h1) =>
                   (/\ pc'[r] = "save_data"
                    /\ IsTrimOf(data_point'[r], article_soup[r].text))

\* C9: scrape_most_read_article returns "" when a request fails (transport
\* error or non-2xx status) or an element is absent (section, link, href,
\* heading) and does not raise then; it returns a non-empty string only when
\* every step succeeded, and what it returns then is the heading's text with
\* leading and trailing whitespace removed.
C9_ExtractorResult == [][C9_ReturnStep]_vars

\* The extractor returned a headline trimmed on both sides.
C9_Witness ==
    \E r \in Runs :
        /\ PastExtractor(r)
        /\ data_point[r] = << "A" >>
        /\ Logged(r, "INFO", "Extracted Headline")

----------------------------------------------------------------------------
(* C10 *)

\* saves[i] = p for some i: the position of p's save among the saves.
SavePos(p) == CHOOSE i \in 1..Len(saves) : saves[i] = p

\* Runs p and q both loaded the file before either saved, both saved, p
\* first and q last of all, under different dates, and the entry p recorded
\* was not in the file q loaded.
LostUpdateCase(p, q) ==
    /\ p # q
    /\ Saved(p) /\ Saved(q)
    /\ saves[Len(saves)] = q
    /\ loaded_at[q] < SavePos(p) /\ loaded_at[p] < SavePos(p)
    /\ DateOf(p) # DateOf(q)
    /\ ~HasEntry(load(file_start[q]), DateOf(p), data_point[p])

\* C10: when two runs overlap (both load before either saves) and record
\* under different dates, the later save writes the file from its own copy,
\* and the entry the earlier save wrote is absent from the file: the update
\* is lost.
C10_LostUpdate ==
    \A p \in Runs : \A q \in Runs :
        LostUpdateCase(p, q) =>
            /\ file = save(dem[q])
            /\ ~HasEntry(file.data, DateOf(p), data_point[p])
            /\ HasEntry(file.data, DateOf(q), data_point[q])

\* Both overlapping runs have ended normally after such a pair of saves.
C10_Witness ==
    \E p \in Runs : \E q \in Runs :
        /\ LostUpdateCase(p, q)
        /\ pc[p] = "done" /\ pc[q] = "done"
        /\ DateOf(p) \notin Keys(file.data)

====
